---- MODULE Spec2Model ----
(***************************************************************************)
(* Model of awkward::PubSub<EventName, EventArgs...> (src/PubSub.h).       *)
(*                                                                         *)
(* The registry is a std::unordered_multimap<EventName, Callback>.  It is  *)
(* modelled as the sequence of its nodes in iteration order.  The C++      *)
(* standard keeps elements with equivalent keys adjacent and keeps their   *)
(* relative order across a rehash, and leaves everything else about the    *)
(* iteration order unspecified: emplace picks any position that keeps the  *)
(* groups adjacent, and may rehash.                                        *)
(*                                                                         *)
(* emit() walks [first, second) of equal_range with live iterators while   *)
(* the callbacks run; a callback is an arbitrary closure and may call on,  *)
(* off and emit of the same object, return, or throw.  An iterator is a    *)
(* node pointer: after the node is erased it dangles, and using it is      *)
(* undefined behaviour, modelled as a choice between a crash, a null       *)
(* pointer and the stale link the freed node still holds.                  *)
(***************************************************************************)
EXTENDS Integers, Sequences, FiniteSets, TLC

\* ---- bounds ----
MaxKey == 2          \* event names are 1..MaxKey
MaxNodes == 3        \* total number of emplace calls in a behaviour
MaxEmits == 2        \* total number of emit calls in a behaviour

Keys == 1..MaxKey

\* the past-the-end iterator (a null node pointer)
End == 0
\* the argument object of emit holds the published value, or what a move
\* constructor left of it
Published == "value"

MovedFrom == "moved-from"

VARIABLES
  callbacks,   \* the multimap: sequence of node ids in iteration order
  node,        \* node memory: node[id] = [k, nxt], kept after erase; the
               \* std::function of a node is opaque and is known by its node
  stack,       \* activation records of the emit calls in progress
  crashed,     \* the process died (null or dangling dereference)
  emits,       \* number of emit calls made so far
  cleared,     \* history: the keys off() was called for with no on() since
  reg,         \* history: per key, the node ids passed to on() since the
               \* last off() of the key, in the order of the calls
  last         \* history: <<f>> for the final activation record f of the
               \* outermost emit that ended last, <<>> once on() or off()
               \* was called after it or when there was none

vars == <<callbacks, node, stack, crashed, emits, cleared, reg, last>>

\* ---- sequences ----
Range(s) == {s[i] : i \in DOMAIN s}

Min(S) == CHOOSE x \in S : \A y \in S : x <= y

Max(S) == CHOOSE x \in S : \A y \in S : x >= y

Pop(s) == SubSeq(s, 1, Len(s) - 1)

InsertAt(s, p, x) == SubSeq(s, 1, p) \o <<x>> \o SubSeq(s, p + 1, Len(s))

IsPrefix(s, t) == Len(s) <= Len(t) /\ SubSeq(t, 1, Len(s)) = s

\* ---- the container ----
Live(id) == id \in Range(callbacks)

Freed(id) == id \in DOMAIN node /\ ~Live(id)

Idx(cb, id) == CHOOSE i \in DOMAIN cb : cb[i] = id

\* operator++ of an iterator to a live node
Succ(cb, id) == IF Idx(cb, id) = Len(cb) THEN End ELSE cb[Idx(cb, id) + 1]

GroupIdx(k) == {i \in DOMAIN callbacks : node[callbacks[i]].k = k}

\* unordered_multimap::count
Count(k) == Cardinality(GroupIdx(k))

\* equal_range that answers the whole container for a key that is absent
EqualRangeWhole(k) ==
  IF GroupIdx(k) = {}
  THEN <<IF callbacks = <<>> THEN End ELSE callbacks[1], End>>
  ELSE <<callbacks[Min(GroupIdx(k))],
         IF Max(GroupIdx(k)) = Len(callbacks) THEN End
         ELSE callbacks[Max(GroupIdx(k)) + 1]>>

\* unordered_multimap::equal_range: <<first, second>>
EqualRange(k) ==
  IF GroupIdx(k) = {} THEN <<End, End>>
  ELSE <<callbacks[Min(GroupIdx(k))],
         IF Max(GroupIdx(k)) = Len(callbacks) THEN End
         ELSE callbacks[Max(GroupIdx(k)) + 1]>>

\* the node ids of [first, second) as equal_range sees them now
Group(k) == SelectSeq(callbacks, LAMBDA id : node[id].k = k)

\* erase(find(key)): removes one entry of the key, not all of them
EraseFirstOnly(k) ==
  SelectSeq(callbacks, LAMBDA id : id # callbacks[Min(GroupIdx(k))])

\* clear(): removes the entries of every key
EraseAll(k) == <<>>

\* unordered_multimap::erase(key)
Erase(k) == SelectSeq(callbacks, LAMBDA id : node[id].k # k)

\* key of a node of the sequence s, where nid is a new node with key k
KeyIn(id, nid, k) == IF id = nid THEN k ELSE node[id].k

\* elements with equivalent keys are adjacent
Adjacent(s, nid, k) ==
  \A i, j, l \in DOMAIN s :
    (i < j /\ j < l /\ KeyIn(s[i], nid, k) = KeyIn(s[l], nid, k))
      => KeyIn(s[j], nid, k) = KeyIn(s[i], nid, k)

\* the orders a rehash may leave: groups stay adjacent and the relative
\* order of equivalent elements is kept
Rehashed(cb) ==
  {r \in [DOMAIN cb -> Range(cb)] :
     /\ Range(r) = Range(cb)
     /\ Adjacent(r, End, 0)
     /\ \A i, j \in DOMAIN cb :
          (i < j /\ node[cb[i]].k = node[cb[j]].k)
            => Idx(r, cb[i]) < Idx(r, cb[j])}

\* the positions at which emplace may link a new node with key k
InsertPositions(cb, nid, k) ==
  {p \in 0..Len(cb) : Adjacent(InsertAt(cb, p, nid), nid, k)}

\* unordered_map::emplace: does nothing when an equivalent key is present
EmplaceUnique(cb, p, nid, k) ==
  IF \E i \in DOMAIN cb : node[cb[i]].k = k THEN cb ELSE InsertAt(cb, p, nid)

\* unordered_multimap::emplace: links the new node nid with key k at position
\* p, whether or not an equivalent key is present
Emplace(cb, p, nid, k) == InsertAt(cb, p, nid)

\* ---- activation records of emit ----
Top == stack[Len(stack)]

\* the caller of on/off/emit is main (no emit in progress) or a callback
CanCall == ~crashed /\ (IF Len(stack) = 0 THEN TRUE ELSE Top.st = "running")

\* the stack after the running callback, if any, called into the object
Reentered == IF Len(stack) = 0 THEN stack
             ELSE [stack EXCEPT ![Len(stack)].reent = TRUE]

Invalidated(s) == [i \in DOMAIN s |-> [s[i] EXCEPT !.inval = TRUE]]

\* the stack after on() or off() ran while the emit calls of s were in
\* progress, called by a callback of the innermost of them
Mutated(s) == [i \in DOMAIN s |->
                 [s[i] EXCEPT !.mut = TRUE, !.direct = @ \/ i = Len(s)]]

\* the stack after the running callback, if any, called emit
Nested == IF Len(stack) = 0 THEN stack
          ELSE [stack EXCEPT ![Len(stack)].reent = TRUE,
                             ![Len(stack)].nested = TRUE]

\* what is remembered of an emit whose activation record leaves the stack
Ended == IF Len(stack) = 1 THEN <<Top>> ELSE last

Init ==
  /\ callbacks = <<>>
  /\ node = <<>>
  /\ stack = <<>>
  /\ crashed = FALSE
  /\ emits = 0
  /\ cleared = {}
  /\ reg = [k \in Keys |-> <<>>]
  /\ last = <<>>

\* PubSub::on: callbacks.emplace(eventName, callback)
On(k) ==
  /\ CanCall
  /\ Len(node) < MaxNodes
  /\ LET nid == Len(node) + 1 IN
     \E rh \in BOOLEAN :
       \E base \in (IF rh THEN Rehashed(callbacks) ELSE {callbacks}) :
         \E p \in InsertPositions(base, nid, k) :
           /\ callbacks' = Emplace(base, p, nid, k)
           /\ node' = Append(node, [k |-> k, nxt |-> End])
           /\ stack' = Mutated(IF rh THEN Invalidated(Reentered)
                                ELSE Reentered)
           /\ reg' = [reg EXCEPT ![k] = Append(@, nid)]
  /\ cleared' = cleared \ {k}
  /\ last' = <<>>
  /\ UNCHANGED <<crashed, emits>>

\* PubSub::off: if (callbacks.count(eventName)) callbacks.erase(eventName)
Off(k) ==
  /\ CanCall
  /\ IF Count(k) # 0
     THEN /\ callbacks' = Erase(k)
          /\ node' = [id \in DOMAIN node |->
                        IF Live(id) /\ node[id].k = k
                        THEN [node[id] EXCEPT !.nxt = Succ(callbacks, id)]
                        ELSE node[id]]
     ELSE UNCHANGED <<callbacks, node>>
  /\ stack' = Mutated(Reentered)
  /\ cleared' = cleared \cup {k}
  /\ reg' = [reg EXCEPT ![k] = <<>>]
  /\ last' = <<>>
  /\ UNCHANGED <<crashed, emits>>

\* PubSub::emit, entry: auto callbacks = this->callbacks.equal_range(eventName)
Emit(k, rv) ==
  /\ CanCall
  /\ emits < MaxEmits
  /\ stack' = Append(Nested,
       [key |-> k, it |-> EqualRange(k)[1], second |-> EqualRange(k)[2],
        arg |-> Published, rv |-> rv, st |-> "loop", inval |-> FALSE,
        reent |-> FALSE, nested |-> FALSE, mut |-> FALSE,
        direct |-> FALSE, inv |-> <<>>,
        snap |-> Group(k), cb0 |-> callbacks, cleared |-> k \in cleared])
  /\ emits' = emits + 1
  /\ UNCHANGED <<callbacks, node, crashed, cleared, reg, last>>

\* what std::forward<Args>(arg) leaves in the caller's argument object once
\* the by-value parameter of the std::function call was constructed from it:
\* an lvalue is copied, an rvalue of class type is moved from
AfterForward(arg, rv) == IF rv THEN MovedFrom ELSE arg

\* the outcomes of `*it` in the loop body
Deref(f) ==
  IF f.it = End THEN {"crash"}
  ELSE IF Freed(f.it) \/ f.inval THEN {"crash", "call"}
  ELSE {"call"}

Crash == -1

\* the outcomes of `it++`: the link of a live node, or for a freed node the
\* stale link, a null pointer or a crash
Incr(f) ==
  (IF Live(f.it) THEN {Succ(callbacks, f.it)} ELSE {node[f.it].nxt, End})
    \cup (IF Freed(f.it) \/ f.inval THEN {Crash} ELSE {})

\* PubSub::emit, loop body: callback(std::move(eventName), std::forward(arg))
EmitCall ==
  /\ ~crashed
  /\ Len(stack) > 0
  /\ Top.st = "loop"
  /\ Top.it # Top.second
  /\ \E out \in Deref(Top) :
       IF out = "crash"
       THEN /\ crashed' = TRUE
            /\ UNCHANGED stack
       ELSE /\ stack' = [stack EXCEPT ![Len(stack)] =
                 [@ EXCEPT !.st = "running",
                           !.inv = Append(@, [id |-> Top.it, seen |-> Top.arg,
                                              failed |-> FALSE]),
                           !.arg = AfterForward(Top.arg, Top.rv)]]
            /\ UNCHANGED crashed
  /\ UNCHANGED <<callbacks, node, emits, cleared, reg, last>>

\* PubSub::emit, loop exit: it == callbacks.second, emit returns
EmitReturn ==
  /\ ~crashed
  /\ Len(stack) > 0
  /\ Top.st = "loop"
  /\ Top.it = Top.second
  /\ stack' = Pop(stack)
  /\ last' = Ended
  /\ UNCHANGED <<callbacks, node, crashed, emits, cleared, reg>>

\* an emit that delivers to an entry once: it removes the entry on return
HandlerReturnOnce ==
  /\ ~crashed
  /\ Len(stack) > 0
  /\ Top.st = "running"
  /\ Live(Top.it)
  /\ stack' = [stack EXCEPT ![Len(stack)] =
       [@ EXCEPT !.st = "loop", !.it = Succ(callbacks, Top.it)]]
  /\ callbacks' = SelectSeq(callbacks, LAMBDA id : id # Top.it)
  /\ UNCHANGED <<node, crashed, emits, cleared, reg, last>>

\* the callback returns and the loop executes it++
HandlerReturn ==
  /\ ~crashed
  /\ Len(stack) > 0
  /\ Top.st = "running"
  /\ \E n \in Incr(Top) :
       IF n = Crash
       THEN /\ crashed' = TRUE
            /\ UNCHANGED stack
       ELSE /\ stack' = [stack EXCEPT ![Len(stack)] =
                 [@ EXCEPT !.st = "loop", !.it = n]]
            /\ UNCHANGED crashed
  /\ UNCHANGED <<callbacks, node, emits, cleared, reg, last>>

\* an emit that catches what the callback throws and goes on with the loop
HandlerThrowSwallowed ==
  /\ ~crashed
  /\ Len(stack) > 0
  /\ Top.st = "running"
  /\ Live(Top.it)
  /\ stack' = [stack EXCEPT ![Len(stack)] =
       [@ EXCEPT !.st = "loop", !.it = Succ(callbacks, Top.it),
                 !.inv[Len(Top.inv)].failed = TRUE]]
  /\ UNCHANGED <<callbacks, node, crashed, emits, cleared, reg, last>>

\* the callback throws (or lets the exception of a nested emit pass): emit has
\* no try block, the exception leaves the loop
HandlerThrow ==
  /\ ~crashed
  /\ Len(stack) > 0
  /\ Top.st = "running"
  /\ stack' = [stack EXCEPT ![Len(stack)] =
       [@ EXCEPT !.st = "thrown", !.inv[Len(Top.inv)].failed = TRUE]]
  /\ UNCHANGED <<callbacks, node, crashed, emits, cleared, reg, last>>

\* an emit that disables the entry whose callback threw
UnwindDisabling ==
  /\ ~crashed
  /\ Len(stack) > 0
  /\ Top.st = "thrown"
  /\ stack' = Pop(stack)
  /\ last' = Ended
  /\ callbacks' = SelectSeq(callbacks, LAMBDA id : id # Top.it)
  /\ UNCHANGED <<node, crashed, emits, cleared, reg>>

\* the exception unwinds emit's activation record and reaches its caller
Unwind ==
  /\ ~crashed
  /\ Len(stack) > 0
  /\ Top.st = "thrown"
  /\ stack' = Pop(stack)
  /\ last' = Ended
  /\ UNCHANGED <<callbacks, node, crashed, emits, cleared, reg>>

Next ==
  \/ \E k \in Keys : On(k)
  \/ \E k \in Keys : Off(k)
  \/ \E k \in Keys, rv \in BOOLEAN : Emit(k, rv)
  \/ EmitCall
  \/ EmitReturn
  \/ HandlerReturn
  \/ HandlerThrow
  \/ Unwind

Spec == Init /\ [][Next]_vars

TypeOK ==
  /\ Range(callbacks) \subseteq DOMAIN node
  /\ Len(node) <= MaxNodes
  /\ Len(stack) <= emits
  /\ emits \in 0..MaxEmits
  /\ crashed \in BOOLEAN
  /\ Adjacent(callbacks, End, 0)
  /\ cleared \subseteq Keys
  /\ \A k \in Keys : Range(reg[k]) \subseteq DOMAIN node
  /\ Len(last) <= 1

\* ---- vocabulary of the properties ----
Frames == {stack[i] : i \in DOMAIN stack}

\* the node ids a publish has invoked so far, in order
InvIds(f) == [i \in DOMAIN f.inv |-> f.inv[i].id]

\* node ids are handed out in the order of the on() calls, so the order of
\* registration of a set of entries is the ascending order of their ids
RECURSIVE Ascending(_)
Ascending(S) == IF S = {} THEN <<>> ELSE <<Min(S)>> \o Ascending(S \ {Min(S)})

RegOrder(snap) == Ascending(Range(snap))

\* emit has reached the end of its loop and is about to return normally
Returning(f) == f.st = "loop" /\ f.it = f.second

\* C1: a publish invokes the handlers registered under its key in the order
\* in which they were registered: what it has invoked so far is always a
\* prefix of the entries present at its start, taken in registration order.
FanOutInRegistrationOrder ==
  \A f \in Frames : IsPrefix(InvIds(f), RegOrder(f.snap))

\* C2: a publish in progress invokes only entries that were registered under
\* its key when it started, also when a handler subscribes during it.
InvokesOnlySnapshot ==
  \A f \in Frames : Range(InvIds(f)) \subseteq Range(f.snap)

\* C3: when a handler unsubscribes the key of the publish in progress, the
\* publish still runs to its end and invokes every entry of its start.
UnsubscribeDoesNotCancel ==
  \A f \in Frames :
    (\E id \in Range(f.snap) : Freed(id))
      => /\ ~crashed
         /\ Returning(f) => Range(f.snap) \subseteq Range(InvIds(f))

\* C4: every handler of a publish observes the value that was published.
ArgumentIndependence ==
  \A f \in Frames : \A i \in DOMAIN f.inv : f.inv[i].seen = Published

\* C5: a publish that starts after off(K), with no on(K) in between, invokes
\* no handler, however many entries off(K) removed.
BulkRemoval ==
  \A f \in Frames : f.cleared => (f.inv = <<>> /\ f.it = f.second)

\* a publish started after off(K) removed two or more entries of K
BulkRemovalWitness ==
  \E f \in Frames :
    /\ f.cleared
    /\ Cardinality({id \in DOMAIN node : Freed(id) /\ node[id].k = f.key}) >= 2

\* C6: publish(K1) invokes only handlers whose entry was registered under K1.
KeyIsolation ==
  \A f \in Frames : \A i \in DOMAIN f.inv : node[f.inv[i].id].k = f.key

\* C7: once a handler of a publish has failed, it is the last one that
\* publish invoked and the failure is on its way to the caller of publish:
\* the loop is never resumed.
FailFast ==
  \A f \in Frames : \A i \in DOMAIN f.inv :
    f.inv[i].failed => (i = Len(f.inv) /\ f.st = "thrown")

\* the second of three handlers has failed, the third was not invoked
FailFastWitness ==
  \E f \in Frames :
    /\ Len(f.snap) = 3
    /\ Len(f.inv) = 2
    /\ f.inv[2].failed
    /\ f.st = "thrown"

\* C8: off(K) does not fail, leaves the registry as it is when K has no
\* entry, removes every entry of K and keeps the entries of the other keys in
\* their order, so that a second off(K) changes nothing.
UnsubscribeFramed ==
  [][\A k \in Keys :
       Off(k) =>
         /\ crashed' = crashed
         /\ Len(stack') = Len(stack)
         /\ \A i \in DOMAIN stack : stack'[i].st = stack[i].st
         /\ Count(k) = 0 => callbacks' = callbacks
         /\ Count(k)' = 0
         /\ callbacks' = SelectSeq(callbacks, LAMBDA id : node[id].k # k)
         /\ \A j \in Keys \ {k} : Group(j)' = Group(j)]_vars

\* off(K) has removed the entries of K while another key keeps two entries
UnsubscribeFramedWitness ==
  \E k \in cleared :
    /\ \E id \in DOMAIN node : Freed(id) /\ node[id].k = k
    /\ \E j \in Keys \ {k} : Count(j) = 2

\* C9: a publish to a key without entries invokes nothing, does not fail and
\* leaves the registry unchanged: it enters with an empty range and its only
\* step is the return.
NoOpPublish ==
  [][/\ \A k \in Keys, rv \in BOOLEAN :
          (Emit(k, rv) /\ Count(k) = 0) =>
             /\ callbacks' = callbacks
             /\ crashed' = crashed
             /\ Top'.it = Top'.second
             /\ Top'.inv = <<>>
     /\ (Len(stack) > 0 /\ Top.snap = <<>>) =>
             /\ stack' = Pop(stack)
             /\ Top.st = "loop"
             /\ Top.inv = <<>>
             /\ callbacks' = callbacks
             /\ crashed' = crashed]_vars

\* a publish to a key without entries while another key has entries
NoOpPublishWitness ==
  /\ Len(stack) > 0
  /\ Top.snap = <<>>
  /\ callbacks # <<>>

\* C10: on(K, H) succeeds and adds exactly one entry under K, keeping every
\* entry K had, also when K is already registered: the callable is never
\* looked at, no entry is replaced and none is merged.
SubscribeAppends ==
  [][\A k \in Keys :
       On(k) =>
         /\ crashed' = crashed
         /\ Count(k)' = Count(k) + 1
         /\ Range(Group(k)) \subseteq Range(Group(k)')
         /\ Len(callbacks') = Len(callbacks) + 1]_vars

\* two entries are registered under the same key
SubscribeAppendsWitness ==
  \E i, j \in DOMAIN callbacks :
    /\ i # j
    /\ node[callbacks[i]].k = node[callbacks[j]].k

\* C11: an emit none of whose callbacks threw or called the object invokes
\* the entries its key had at the call, each once and in the order of the
\* container, every one of them with the published argument, and has invoked
\* all of them when it returns.
ExactlyOnceDelivery ==
  \A f \in Frames : (~f.reent /\ f.st # "thrown") =>
     /\ IsPrefix(InvIds(f), f.snap)
     /\ Returning(f) => InvIds(f) = f.snap
     /\ \A i \in DOMAIN f.inv : f.inv[i].seen = Published

\* C12: in every state the entries the container holds under a key are
\* exactly the nodes passed to on() for that key since the last off() of the
\* key (since construction if there was none), each of them once; the
\* history reg changes in on() and off() only, so no other step creates or
\* removes an entry.
RegistryHistory ==
  \A k \in Keys : /\ Range(Group(k)) = Range(reg[k])
                  /\ Len(Group(k)) = Len(reg[k])

\* on(k) after an off(k) that removed entries, possibly inside an emit
RegistryHistoryWitness ==
  \E k \in Keys : /\ reg[k] # <<>>
                  /\ \E id \in DOMAIN node : node[id].k = k /\ Freed(id)
                  /\ \E j \in Keys \ {k} : reg[j] # <<>>

\* C13: an emit during which the callbacks did nothing but call on() with
\* the key of the emit (no off(), no emit, no exception) never makes more
\* invocations than its key had entries at the call, and has made exactly
\* that many when it returns.
TerminatesAtSnapshotCount ==
  \A f \in Frames :
     ( /\ Len(stack) = 1 /\ ~f.nested /\ f.st # "thrown"
       /\ Range(f.cb0) \subseteq Range(callbacks)
       /\ \A id \in Range(callbacks) \ Range(f.cb0) : node[id].k = f.key )
     => /\ Len(f.inv) <= Len(f.snap)
        /\ Returning(f) => Len(f.inv) = Len(f.snap)

\* C14: as long as no callback has called on() or off() since an emit was
\* called, the container is what it was at the call, during the emit and
\* after its return; and an emit called next with the same key, after a
\* first emit that returned normally and with no on() or off() in between,
\* invokes the entries the first one invoked, in the same order.
PublishKeepsRegistry ==
  /\ \A f \in Frames : ~f.mut => callbacks = f.cb0
  /\ (Len(last) = 1 /\ ~last[1].mut) => callbacks = last[1].cb0
  /\ ( /\ Len(stack) >= 1 /\ Len(last) = 1
       /\ ~last[1].mut /\ last[1].st = "loop"
       /\ stack[1].key = last[1].key /\ stack[1].st # "thrown" )
     => /\ IsPrefix(InvIds(stack[1]), InvIds(last[1]))
        /\ Returning(stack[1]) => InvIds(stack[1]) = InvIds(last[1])

\* a second emit returns after it invoked the two entries the first invoked
PublishKeepsRegistryWitness ==
  /\ Len(stack) = 1 /\ Len(last) = 1
  /\ ~last[1].mut /\ last[1].st = "loop"
  /\ stack[1].key = last[1].key
  /\ Returning(stack[1])
  /\ Len(stack[1].inv) >= 2
  /\ InvIds(stack[1]) = InvIds(last[1])

\* C15 as stated: whenever a callback has thrown out of an emit, the
\* container is what it was when that emit was called.
FailedPublishIntact ==
  \A f \in Frames : f.st = "thrown" => callbacks = f.cb0

\* C15: when a callback has thrown out of an emit and no callback called
\* on() or off() during that emit, the container is what it was when the
\* emit was called, while the exception unwinds and after it left emit; an
\* emit of the same key called next, with no on() or off() in between,
\* starts from the same entries and invokes them from the first one onward.
FailedPublishKeepsRegistry ==
  /\ \A f \in Frames : (f.st = "thrown" /\ ~f.mut) => callbacks = f.cb0
  /\ (Len(last) = 1 /\ last[1].st = "thrown" /\ ~last[1].mut)
       => callbacks = last[1].cb0
  /\ ( /\ Len(stack) >= 1 /\ Len(last) = 1
       /\ last[1].st = "thrown" /\ ~last[1].mut
       /\ stack[1].key = last[1].key )
     => /\ stack[1].snap = last[1].snap
        /\ IsPrefix(InvIds(stack[1]), last[1].snap)

\* the first of two entries threw; the next emit has invoked it again and
\* has gone on to the second
FailedPublishKeepsRegistryWitness ==
  /\ Len(stack) = 1 /\ Len(last) = 1
  /\ last[1].st = "thrown" /\ ~last[1].mut
  /\ Len(last[1].snap) = 2 /\ Len(last[1].inv) = 1
  /\ stack[1].key = last[1].key
  /\ InvIds(stack[1]) = last[1].snap

\* C16: on(K, H) leaves the entries of every other key and their order as
\* they are, and the entries K had keep their order and are followed by the
\* new entry.
SubscribeFramed ==
  [][\A k \in Keys :
       On(k) =>
         /\ \A j \in Keys \ {k} : Group(j)' = Group(j)
         /\ Group(k)' = Append(Group(k), Len(node) + 1)]_vars

\* C17: an emit called when its key holds the one entry registered after an
\* off() of the key that removed earlier entries invokes that entry and no
\* other: nothing else while it runs, exactly that entry when it returns.
ResubscriptionAfterRemoval ==
  \A f \in Frames :
     ( /\ Len(f.snap) = 1
       /\ \E id \in DOMAIN node : id < f.snap[1] /\ node[id].k = f.key )
     => /\ Range(InvIds(f)) \subseteq {f.snap[1]}
        /\ Returning(f) => InvIds(f) = f.snap

\* C18: an emit called by a callback has invoked every entry its key had
\* when it returns, and it returns before the emit that invoked the callback
\* goes on; that outer emit, whose own callbacks call nothing but emit, does
\* not crash and still invokes the entries its key had at its call and no
\* others, each once, all of them by the time it returns.
NestedPublish ==
  \A i \in DOMAIN stack :
     /\ i > 1 =>
          /\ stack[i - 1].st = "running"
          /\ stack[i - 1].nested
     /\ (stack[i].nested /\ ~stack[i].direct /\ stack[i].st # "thrown") =>
          /\ ~crashed
          /\ Range(InvIds(stack[i])) \subseteq Range(stack[i].snap)
          /\ Cardinality(Range(InvIds(stack[i]))) = Len(stack[i].inv)
          /\ Returning(stack[i]) => Len(stack[i].inv) = Len(stack[i].snap)
====
